---- MODULE Spec2Model ----
(***************************************************************************)
(* Authentication backend (src/unnamed/part_001): the five request         *)
(* handlers /signup, /login, /google-signin, /forgot-password and          *)
(* /reset-password running concurrently against the shared `users` table.  *)
(*                                                                         *)
(* A handler is split wherever it gives the event loop back: at each       *)
(* db.query, at each await of bcrypt.hash / bcrypt.compare and at          *)
(* transporter.sendMail; these are the points where other requests         *)
(* interleave.  A db.query and the run of its callback up to the next such *)
(* point are one step where the callback reads nothing but its arguments;  *)
(* the callbacks of /google-signin sign a token at the clock of the moment *)
(* they run, so there the store's run of the query and the callback are    *)
(* two steps.  The store, the hasher and the mail transport may each       *)
(* report an error to the callback that waits for them.                    *)
(* authLimiter counts the requests to /login and /signup; all requests     *)
(* come from one address.                                                  *)
(* Time is in seconds, the unit of the iat/exp claims of a JWT.            *)
(***************************************************************************)
EXTENDS Integers, Sequences, FiniteSets, TLC

\* ------------------------------------------------------------- bounds
NProcs == 3             \* request slots: the requests of one race
MaxHours == 1           \* the clock samples the instants 0, 1 and h * ResetTtl, h <= MaxHours
MaxHits == 2            \* /login and /signup requests taken per limiter window where slots are reused

\* ------------------------------------------------- program constants
ResetTtl == 3600        \* expiresIn: "1h"; Date.now() + 3600000
SessionTtl == 604800    \* expiresIn: "7d"
MinPasswordLen == 6     \* validator.isLength(password, { min: 6 })
AuthLimiterMax == 50    \* max: 50
AuthLimiterWindow == 900 \* windowMs: 15 * 60 * 1000

\* --------------------------------------------------------- the values
NULL == "NULL"          \* SQL NULL, a field missing from req.body, a null err
Procs == 1 .. NProcs
Slots == {1, 2}         \* the slots the full system takes requests on
Emails == {"a@x.com"}
Instants == {0, 1} \cup {h * ResetTtl : h \in 1 .. MaxHours}

\* The err a callback is handed: null, or
DupEntry == "ER_DUP_ENTRY"      \* the UNIQUE constraint refused an INSERT
StoreFault == "ECONNRESET"      \* the store could not run the query
HasherFault == "bcrypt"         \* bcrypt.hash / bcrypt.compare rejected
MailFault == "sendMail"         \* the transport could not send
StoreErrors == {NULL, StoreFault}
HasherErrors == {NULL, HasherFault}
MailErrors == {NULL, MailFault}

JWT_SECRET == "super_secret_key"

\* A JWT: its payload and the key its signature was made with.  jwt.sign
\* puts iat (seconds) and exp = iat + expiresIn into the payload and uses no
\* nonce, so equal payloads signed in the same second are the same token.
NoToken == [email |-> NULL, id |-> 0, iat |-> 0, exp |-> 0, sig |-> NULL]
\* (variant: expiresIn taken for milliseconds, as Date.now() counts)
JwtSignMillis(email, id, ttl, t) ==
    [email |-> email, id |-> id, iat |-> t, exp |-> t + ttl * 1000, sig |-> JWT_SECRET]

JwtSign(email, id, ttl, t) ==
    [email |-> email, id |-> id, iat |-> t, exp |-> t + ttl, sig |-> JWT_SECRET]
\* (variant: the signature checked, the expiry not)
JwtVerifySignatureOnly(token, t) == token.sig = JWT_SECRET

\* jwt.verify throws on a bad signature and when now >= exp
JwtVerify(token, t) == token.sig = JWT_SECRET /\ t < token.exp
ForgedToken == [email |-> "a@x.com", id |-> 0, iat |-> 0, exp |-> ResetTtl, sig |-> "other_key"]

\* bcrypt: the digest is not the plaintext; compare re-derives it.  The salt
\* is left out (it changes no outcome of compare).
BcryptHash(password) == "$2b$10$" \o password
\* (variant: the promise of compare tested without await, always truthy)
BcryptCompareNotAwaited(password, digest) == TRUE

BcryptCompare(password, digest) == digest = BcryptHash(password)

\* validator.isEmail / isAlpha / isLength on the inputs the model draws
IsEmail(s) == s \in {"a@x.com", "b@x.com"}
IsAlpha(s) == s \in {"Ana", "Bo"}
IsLength(s, min) == Len(s) >= min

\* ------------------------------------------------------------ the state
VARIABLES
    rows,      \* the users table: a set of rows
    nextId,    \* AUTO_INCREMENT counter of users.id
    now,       \* the clock (seconds)
    pc,        \* per request slot: where its handler stands
    req,       \* per request slot: req.body
    user,      \* per request slot: the row a SELECT returned (results[0])
    hashed,    \* per request slot: the bcrypt digest computed
    tok,       \* per request slot: the reset token /forgot-password signed
    err,       \* per request slot: the err its last callback was handed
    resp,      \* per request slot: the response sent (status 0: none yet)
    hits       \* authLimiter: the requests it has counted in this window

vars == <<rows, nextId, now, pc, req, user, hashed, tok, err, resp, hits>>

NoUser == [id |-> 0, name |-> NULL, email |-> NULL, password |-> NULL,
           is_google |-> FALSE, reset_token |-> NoToken, token_expires |-> 0]
NoReq == [op |-> NULL, name |-> NULL, email |-> NULL, password |-> NULL, token |-> NoToken]

\* The `user` object of a success payload; absent from every other response
NoProjection == [name |-> NULL, email |-> NULL]
\* user: { name: user.name, email: user.email }
UserProjection(u) == [name |-> u.name, email |-> u.email]

NoResp == [status |-> 0, msg |-> NULL, token |-> NoToken, user |-> NoProjection]
Reply(status, msg) == [status |-> status, msg |-> msg, token |-> NoToken, user |-> NoProjection]
ReplyToken(msg, token, projection) ==
    [status |-> 200, msg |-> msg, token |-> token, user |-> projection]

\* -------------------------------------------------------- the store
\* SELECT ... FROM users WHERE email = ?
DbSelect(email) == {r \in rows : r.email = email}
First(results) == IF results = {} THEN NoUser ELSE CHOOSE r \in results : TRUE

\* (variant: the email column without its UNIQUE constraint)
DbInsertUnchecked(email) == TRUE

\* email VARCHAR(255) NOT NULL UNIQUE: an INSERT of a present email is refused
DbInsertOk(email) == DbSelect(email) = {}
NewRow(name, email, password, isGoogle) ==
    [id |-> nextId, name |-> name, email |-> email, password |-> password,
     is_google |-> isGoogle, reset_token |-> NoToken, token_expires |-> 0]

\* (variant: REPLACE INTO, which deletes the row and inserts it anew under
\* the next id)
UpdateGoogleReassignsId(name, email) ==
    {IF r.email = email THEN [r EXCEPT !.name = name, !.is_google = TRUE, !.id = nextId]
     ELSE r : r \in rows}

\* (variant: the row replaced by a fresh federated one, its password dropped)
UpdateGoogleReplacesRow(name, email) ==
    {IF r.email = email THEN [r EXCEPT !.name = name, !.is_google = TRUE, !.password = NULL]
     ELSE r : r \in rows}

\* UPDATE users SET name = ?, is_google = TRUE WHERE email = ?
UpdateGoogle(name, email) ==
    {IF r.email = email THEN [r EXCEPT !.name = name, !.is_google = TRUE] ELSE r : r \in rows}

\* (variant: the UPDATE of the token column alone)
UpdateResetTokenOnly(token, expireTime, email) ==
    {IF r.email = email THEN [r EXCEPT !.reset_token = token] ELSE r : r \in rows}

\* UPDATE users SET reset_token = ?, token_expires = ? WHERE email = ?
UpdateResetToken(token, expireTime, email) ==
    {IF r.email = email THEN [r EXCEPT !.reset_token = token, !.token_expires = expireTime]
     ELSE r : r \in rows}

\* (variant: the UPDATE conditioned on the email alone)
ResetMatchesEmailOnly(email, token) == {r \in rows : r.email = email}

\* ... WHERE email = ? AND reset_token = ?   (NULL = ? is never true)
ResetMatches(email, token) ==
    {r \in rows : r.email = email /\ r.reset_token # NoToken /\ r.reset_token = token}

\* (variant: the password written, the reset fields left for a second UPDATE)
UpdatePasswordOnly(digest, email, token) ==
    {IF r \in ResetMatches(email, token) THEN [r EXCEPT !.password = digest] ELSE r : r \in rows}

\* (variant: a password reset turning the row back into a password account)
UpdatePasswordClearsGoogle(digest, email, token) ==
    {IF r \in ResetMatches(email, token)
     THEN [r EXCEPT !.password = digest, !.reset_token = NoToken, !.token_expires = 0,
                    !.is_google = FALSE]
     ELSE r : r \in rows}

\* UPDATE users SET password = ?, reset_token = NULL, token_expires = NULL
\*   WHERE email = ? AND reset_token = ?
UpdatePassword(digest, email, token) ==
    {IF r \in ResetMatches(email, token)
     THEN [r EXCEPT !.password = digest, !.reset_token = NoToken, !.token_expires = 0]
     ELSE r : r \in rows}

\* ------------------------------------------------------------- Init
Init ==
    /\ rows = {}
    /\ nextId = 1
    /\ now = 0
    /\ pc = [p \in Procs |-> "idle"]
    /\ req = [p \in Procs |-> NoReq]
    /\ user = [p \in Procs |-> NoUser]
    /\ hashed = [p \in Procs |-> NULL]
    /\ tok = [p \in Procs |-> NoToken]
    /\ err = [p \in Procs |-> NULL]
    /\ resp = [p \in Procs |-> NoResp]
    /\ hits = 0

\* A handler sends its response and ends.
Respond(p, r) ==
    /\ pc' = [pc EXCEPT ![p] = "done"]
    /\ resp' = [resp EXCEPT ![p] = r]

Goto(p, label) ==
    /\ pc' = [pc EXCEPT ![p] = label]
    /\ UNCHANGED resp

\* lines 64-70: authLimiter counts the request before the handler runs
\* (the count is kept up to one above max: beyond it nothing changes) and
\* answers in its place once the count is above max
Hit == IF hits > AuthLimiterMax THEN hits ELSE hits + 1
TooManyRequests == Reply(429, "Too many requests. Try again later.")

\* A callback handed the error e answers r and ends.
Fail(p, e, r) ==
    /\ err' = [err EXCEPT ![p] = e]
    /\ Respond(p, r)

\* ----------------------------------------------------------- /signup
SignupInputs ==
    {[op |-> "signup", name |-> n, email |-> e, password |-> w, token |-> NoToken] :
        n \in {"Ana"}, e \in Emails, w \in {"secret1", "newpass1"}}
    \cup {[op |-> "signup", name |-> NULL, email |-> "a@x.com", password |-> "secret1", token |-> NoToken],
          [op |-> "signup", name |-> "Ana", email |-> NULL, password |-> "secret1", token |-> NoToken],
          [op |-> "signup", name |-> "Ana", email |-> "a@x.com", password |-> NULL, token |-> NoToken],
          [op |-> "signup", name |-> "Ana", email |-> "a@x", password |-> "secret1", token |-> NoToken],
          [op |-> "signup", name |-> "Ana", email |-> "a@x.com", password |-> "abc", token |-> NoToken]}

\* (variant: the validations without the length test)
SignupValidationNoLength(b) ==
    IF b.name = NULL \/ b.email = NULL \/ b.password = NULL
    THEN Reply(400, "All fields are required")
    ELSE IF ~IsAlpha(b.name)
    THEN Reply(400, "Name must contain only letters")
    ELSE IF ~IsEmail(b.email)
    THEN Reply(400, "Invalid email format")
    ELSE NoResp

\* lines 91-107: the rejection the validations send, NoResp when all pass
SignupValidation(b) ==
    IF b.name = NULL \/ b.email = NULL \/ b.password = NULL
    THEN Reply(400, "All fields are required")
    ELSE IF ~IsAlpha(b.name)
    THEN Reply(400, "Name must contain only letters")
    ELSE IF ~IsEmail(b.email)
    THEN Reply(400, "Invalid email format")
    ELSE IF ~IsLength(b.password, MinPasswordLen)
    THEN Reply(400, "Password must be at least 6 characters")
    ELSE NoResp

\* lines 70, 88-110: authLimiter, the validations, then the SELECT is issued
SignupStart(p) ==
    /\ pc[p] = "idle"
    /\ hits' = Hit
    /\ \E b \in SignupInputs :
        /\ req' = [req EXCEPT ![p] = b]
        /\ IF Hit > AuthLimiterMax
           THEN Respond(p, TooManyRequests)
           ELSE IF SignupValidation(b) # NoResp
           THEN Respond(p, SignupValidation(b))
           ELSE Goto(p, "signup_select")
    /\ UNCHANGED <<rows, nextId, now, user, hashed, tok, err>>

\* (variant: the callback without its results.length test)
SignupSelectNoExistsTest(p) ==
    /\ pc[p] = "signup_select"
    /\ \E e \in StoreErrors :
        IF e # NULL
        THEN Fail(p, e, Reply(500, "Database error"))
        ELSE /\ Goto(p, "signup_hash")
             /\ UNCHANGED err
    /\ UNCHANGED <<rows, nextId, now, req, user, hashed, tok, hits>>

\* lines 110-120: the SELECT and its callback, up to the await of bcrypt.hash
SignupSelect(p) ==
    /\ pc[p] = "signup_select"
    /\ \E e \in StoreErrors :
        IF e # NULL
        THEN Fail(p, e, Reply(500, "Database error"))
        ELSE /\ IF DbSelect(req[p].email) # {}
                THEN Respond(p, Reply(409, "Email already exists"))
                ELSE Goto(p, "signup_hash")
             /\ UNCHANGED err
    /\ UNCHANGED <<rows, nextId, now, req, user, hashed, tok, hits>>

\* lines 118-126, 131-133: bcrypt.hash settles; the INSERT is issued, or the
\* catch block answers
SignupHash(p) ==
    /\ pc[p] = "signup_hash"
    /\ \E e \in HasherErrors :
        IF e # NULL
        THEN /\ Fail(p, e, Reply(500, "Server error"))
             /\ UNCHANGED hashed
        ELSE /\ hashed' = [hashed EXCEPT ![p] = BcryptHash(req[p].password)]
             /\ Goto(p, "signup_insert")
             /\ UNCHANGED err
    /\ UNCHANGED <<rows, nextId, now, req, user, tok, hits>>

\* (variant: the INSERT's err ignored by its callback)
SignupInsertIgnoresErr(p) ==
    /\ pc[p] = "signup_insert"
    /\ \E e \in StoreErrors :
        LET x == IF e # NULL THEN e ELSE IF DbInsertOk(req[p].email) THEN NULL ELSE DupEntry IN
        /\ IF x # NULL
           THEN UNCHANGED <<rows, nextId>>
           ELSE /\ rows' = rows \cup {NewRow(req[p].name, req[p].email, hashed[p], FALSE)}
                /\ nextId' = nextId + 1
        /\ err' = [err EXCEPT ![p] = x]
        /\ Respond(p, Reply(200, "User created"))
    /\ UNCHANGED <<now, req, user, hashed, tok, hits>>

\* (variant: the password stored as given, as the /signup of src/index.js
\* lines 45-54 does)
SignupInsertStoresPlaintext(p) ==
    /\ pc[p] = "signup_insert"
    /\ \E e \in StoreErrors :
        LET x == IF e # NULL THEN e ELSE IF DbInsertOk(req[p].email) THEN NULL ELSE DupEntry IN
        IF x # NULL
        THEN /\ Fail(p, x, Reply(500, "Signup failed"))
             /\ UNCHANGED <<rows, nextId>>
        ELSE /\ rows' = rows \cup {NewRow(req[p].name, req[p].email, req[p].password, FALSE)}
             /\ nextId' = nextId + 1
             /\ Respond(p, Reply(200, "User created"))
             /\ UNCHANGED err
    /\ UNCHANGED <<now, req, user, hashed, tok, hits>>

\* lines 123-130: the INSERT and its callback; err is the store's error
\* when it could not run the query, and the refusal of the UNIQUE constraint
\* when it ran it and the email has a row
SignupInsert(p) ==
    /\ pc[p] = "signup_insert"
    /\ \E e \in StoreErrors :
        LET x == IF e # NULL THEN e ELSE IF DbInsertOk(req[p].email) THEN NULL ELSE DupEntry IN
        IF x # NULL
        THEN /\ Fail(p, x, Reply(500, "Signup failed"))
             /\ UNCHANGED <<rows, nextId>>
        ELSE /\ rows' = rows \cup {NewRow(req[p].name, req[p].email, hashed[p], FALSE)}
             /\ nextId' = nextId + 1
             /\ Respond(p, Reply(200, "User created"))
             /\ UNCHANGED err
    /\ UNCHANGED <<now, req, user, hashed, tok, hits>>

\* ------------------------------------------------------------ /login
LoginInputs ==
    {[op |-> "login", name |-> NULL, email |-> e, password |-> w, token |-> NoToken] :
        e \in Emails, w \in {"secret1", "newpass1", NULL}}

\* lines 69, 140-146: authLimiter; no validation; the SELECT is issued
LoginStart(p) ==
    /\ pc[p] = "idle"
    /\ hits' = Hit
    /\ \E b \in LoginInputs : req' = [req EXCEPT ![p] = b]
    /\ IF Hit > AuthLimiterMax
       THEN Respond(p, TooManyRequests)
       ELSE Goto(p, "login_select")
    /\ UNCHANGED <<rows, nextId, now, user, hashed, tok, err>>

\* (variant: the callback without its is_google test, as in the /login of
\* src/unnamed/part_000 lines 284-312)
LoginSelectNoGoogleTest(p) ==
    /\ pc[p] = "login_select"
    /\ \E e \in StoreErrors :
        IF e # NULL
        THEN /\ Fail(p, e, Reply(500, "Database error"))
             /\ UNCHANGED user
        ELSE LET u == First(DbSelect(req[p].email)) IN
             /\ user' = [user EXCEPT ![p] = u]
             /\ IF u = NoUser
                THEN Respond(p, Reply(401, "User not found"))
                ELSE Goto(p, "login_compare")
             /\ UNCHANGED err
    /\ UNCHANGED <<rows, nextId, now, req, hashed, tok, hits>>

\* (variant: password login refused only for a federated row that has no
\* password to compare with)
LoginSelectRefusesOnlyWithoutHash(p) ==
    /\ pc[p] = "login_select"
    /\ \E e \in StoreErrors :
        IF e # NULL
        THEN /\ Fail(p, e, Reply(500, "Database error"))
             /\ UNCHANGED user
        ELSE LET u == First(DbSelect(req[p].email)) IN
             /\ user' = [user EXCEPT ![p] = u]
             /\ IF u = NoUser
                THEN Respond(p, Reply(401, "User not found"))
                ELSE IF u.is_google /\ u.password = NULL
                THEN Respond(p, Reply(403, "Use Google Sign-In instead"))
                ELSE Goto(p, "login_compare")
             /\ UNCHANGED err
    /\ UNCHANGED <<rows, nextId, now, req, hashed, tok, hits>>

\* lines 144-158: the SELECT and its callback, up to the await of
\* bcrypt.compare; `user` keeps the row as the SELECT returned it
LoginSelect(p) ==
    /\ pc[p] = "login_select"
    /\ \E e \in StoreErrors :
        IF e # NULL
        THEN /\ Fail(p, e, Reply(500, "Database error"))
             /\ UNCHANGED user
        ELSE LET u == First(DbSelect(req[p].email)) IN
             /\ user' = [user EXCEPT ![p] = u]
             /\ IF u = NoUser
                THEN Respond(p, Reply(401, "User not found"))
                ELSE IF u.is_google
                THEN Respond(p, Reply(403, "Use Google Sign-In instead"))
                ELSE Goto(p, "login_compare")
             /\ UNCHANGED err
    /\ UNCHANGED <<rows, nextId, now, req, hashed, tok, hits>>

\* (variant: a successful login withdrawing the reset pending on the row)
LoginCompareClearsReset(p) ==
    /\ pc[p] = "login_compare"
    /\ LET u == user[p] IN
        IF req[p].password = NULL \/ u.password = NULL
        THEN /\ Goto(p, "login_thrown")
             /\ UNCHANGED <<err, rows>>
        ELSE \E e \in HasherErrors :
             IF e # NULL
             THEN /\ err' = [err EXCEPT ![p] = e]
                  /\ Goto(p, "login_thrown")
                  /\ UNCHANGED rows
             ELSE /\ IF ~BcryptCompare(req[p].password, u.password)
                     THEN Respond(p, Reply(401, "Invalid password")) /\ UNCHANGED rows
                     ELSE /\ Respond(p, ReplyToken("Login successful",
                                                   JwtSign(u.email, u.id, SessionTtl, now),
                                                   UserProjection(u)))
                          /\ rows' = UpdateResetToken(NoToken, 0, u.email)
                  /\ UNCHANGED err
    /\ UNCHANGED <<nextId, now, req, user, hashed, tok, hits>>

\* lines 158-171: bcrypt.compare settles, on the row the SELECT returned;
\* the token is signed at the clock of this moment.  bcrypt.compare rejects
\* when the data or the hash is missing (and when the hasher fails); the
\* async callback has no catch, so it throws and no response is ever sent
\* ("login_thrown").
LoginCompare(p) ==
    /\ pc[p] = "login_compare"
    /\ LET u == user[p] IN
        IF req[p].password = NULL \/ u.password = NULL
        THEN /\ Goto(p, "login_thrown")
             /\ UNCHANGED err
        ELSE \E e \in HasherErrors :
             IF e # NULL
             THEN /\ err' = [err EXCEPT ![p] = e]
                  /\ Goto(p, "login_thrown")
             ELSE /\ IF ~BcryptCompare(req[p].password, u.password)
                     THEN Respond(p, Reply(401, "Invalid password"))
                     ELSE Respond(p, ReplyToken("Login successful",
                                                JwtSign(u.email, u.id, SessionTtl, now),
                                                UserProjection(u)))
                  /\ UNCHANGED err
    /\ UNCHANGED <<rows, nextId, now, req, user, hashed, tok, hits>>

\* ---------------------------------------------------- /google-signin
GoogleInputs ==
    {[op |-> "google", name |-> n, email |-> e, password |-> NULL, token |-> NoToken] :
        n \in {"Bo", NULL}, e \in Emails}
    \cup {[op |-> "google", name |-> "Bo", email |-> NULL, password |-> NULL, token |-> NoToken]}

\* lines 178-186
GoogleStart(p) ==
    /\ pc[p] = "idle"
    /\ \E b \in GoogleInputs :
        /\ req' = [req EXCEPT ![p] = b]
        /\ IF b.name = NULL \/ b.email = NULL
           THEN Respond(p, Reply(400, "Missing name or email"))
           ELSE Goto(p, "google_select")
    /\ UNCHANGED <<rows, nextId, now, user, hashed, tok, err, hits>>

\* lines 186-194, 208-213: the SELECT and its callback, which issues the
\* INSERT or the UPDATE
GoogleSelect(p) ==
    /\ pc[p] = "google_select"
    /\ \E e \in StoreErrors :
        IF e # NULL
        THEN Fail(p, e, Reply(500, "Database error"))
        ELSE /\ IF DbSelect(req[p].email) = {}
                THEN Goto(p, "google_insert")
                ELSE Goto(p, "google_update")
             /\ UNCHANGED err
    /\ UNCHANGED <<rows, nextId, now, req, user, hashed, tok, hits>>

\* (variant: the INSERT without the is_google column, left at its default)
GoogleInsertUnflagged(p) ==
    /\ pc[p] = "google_insert"
    /\ \E e \in StoreErrors :
        LET x == IF e # NULL THEN e ELSE IF DbInsertOk(req[p].email) THEN NULL ELSE DupEntry IN
        IF x # NULL
        THEN /\ Fail(p, x, Reply(500, "Google user insert failed"))
             /\ UNCHANGED <<rows, nextId>>
        ELSE /\ rows' = rows \cup {NewRow(req[p].name, req[p].email, NULL, FALSE)}
             /\ nextId' = nextId + 1
             /\ Goto(p, "google_inserted")
             /\ UNCHANGED err
    /\ UNCHANGED <<now, req, user, hashed, tok, hits>>

\* lines 191-196: the INSERT; a store that cannot run it, or refuses it,
\* hands err to the callback, which answers; else the row is written and
\* the callback is yet to run
GoogleInsert(p) ==
    /\ pc[p] = "google_insert"
    /\ \E e \in StoreErrors :
        LET x == IF e # NULL THEN e ELSE IF DbInsertOk(req[p].email) THEN NULL ELSE DupEntry IN
        IF x # NULL
        THEN /\ Fail(p, x, Reply(500, "Google user insert failed"))
             /\ UNCHANGED <<rows, nextId>>
        ELSE /\ rows' = rows \cup {NewRow(req[p].name, req[p].email, NULL, TRUE)}
             /\ nextId' = nextId + 1
             /\ Goto(p, "google_inserted")
             /\ UNCHANGED err
    /\ UNCHANGED <<now, req, user, hashed, tok, hits>>

\* lines 194-206 (part_000 lines 330-342): the callback of the INSERT that
\* was run signs the token at the clock of this moment and answers
GoogleInserted(p) ==
    /\ pc[p] = "google_inserted"
    /\ Respond(p, ReplyToken("Google user created",
                             JwtSign(req[p].email, 0, SessionTtl, now),
                             UserProjection(req[p])))
    /\ UNCHANGED <<rows, nextId, now, req, user, hashed, tok, err, hits>>

\* lines 210-215: the UPDATE; a store that cannot run it hands err to the
\* callback, which answers; else the row is written and the callback is
\* yet to run
GoogleUpdate(p) ==
    /\ pc[p] = "google_update"
    /\ \E e \in StoreErrors :
        IF e # NULL
        THEN /\ Fail(p, e, Reply(500, "Google user update failed"))
             /\ UNCHANGED rows
        ELSE /\ rows' = UpdateGoogle(req[p].name, req[p].email)
             /\ Goto(p, "google_updated")
             /\ UNCHANGED err
    /\ UNCHANGED <<nextId, now, req, user, hashed, tok, hits>>

\* lines 213-224 (part_000 lines 349-361): the callback of the UPDATE that
\* was run signs the token at the clock of this moment and answers
GoogleUpdated(p) ==
    /\ pc[p] = "google_updated"
    /\ Respond(p, ReplyToken("Google user updated",
                             JwtSign(req[p].email, 0, SessionTtl, now),
                             UserProjection(req[p])))
    /\ UNCHANGED <<rows, nextId, now, req, user, hashed, tok, err, hits>>

\* -------------------------------------------------- /forgot-password
ForgotInputs ==
    {[op |-> "forgot", name |-> NULL, email |-> e, password |-> NULL, token |-> NoToken] :
        e \in Emails \cup {"b@x.com", "a@x"}}

\* lines 232-243: validation, then the token is signed and the UPDATE issued
ForgotStart(p) ==
    /\ pc[p] = "idle"
    /\ \E b \in ForgotInputs :
        /\ req' = [req EXCEPT ![p] = b]
        /\ IF ~IsEmail(b.email)
           THEN /\ Respond(p, Reply(400, "Invalid email"))
                /\ UNCHANGED tok
           ELSE /\ tok' = [tok EXCEPT ![p] = JwtSign(b.email, 0, ResetTtl, now)]
                /\ Goto(p, "forgot_update")
    /\ UNCHANGED <<rows, nextId, now, user, hashed, err, hits>>

\* (variant: the callback without its affectedRows test)
ForgotUpdateIgnoresAffectedRows(p) ==
    /\ pc[p] = "forgot_update"
    /\ \E e \in StoreErrors :
        IF e # NULL
        THEN /\ Fail(p, e, Reply(500, "Database error"))
             /\ UNCHANGED rows
        ELSE /\ rows' = UpdateResetToken(tok[p], tok[p].iat + ResetTtl, req[p].email)
             /\ Goto(p, "forgot_mail")
             /\ UNCHANGED err
    /\ UNCHANGED <<nextId, now, req, user, hashed, tok, hits>>

\* lines 244-262: the UPDATE and its callback (affectedRows counts the rows
\* matched); sendMail is called
ForgotUpdate(p) ==
    /\ pc[p] = "forgot_update"
    /\ \E e \in StoreErrors :
        IF e # NULL
        THEN /\ Fail(p, e, Reply(500, "Database error"))
             /\ UNCHANGED rows
        ELSE /\ IF DbSelect(req[p].email) = {}
                THEN /\ Respond(p, Reply(404, "User not found"))
                     /\ UNCHANGED rows
                ELSE /\ rows' = UpdateResetToken(tok[p], tok[p].iat + ResetTtl, req[p].email)
                     /\ Goto(p, "forgot_mail")
             /\ UNCHANGED err
    /\ UNCHANGED <<nextId, now, req, user, hashed, tok, hits>>

\* (variant: the stored token withdrawn when sendMail reports an error)
ForgotMailRollsBack(p) ==
    /\ pc[p] = "forgot_mail"
    /\ \E e \in MailErrors :
        IF e # NULL
        THEN /\ Fail(p, e, Reply(500, "Email failed"))
             /\ rows' = UpdateResetToken(NoToken, 0, req[p].email)
        ELSE /\ Respond(p, Reply(200, "Reset link sent"))
             /\ UNCHANGED <<err, rows>>
    /\ UNCHANGED <<nextId, now, req, user, hashed, tok, hits>>

\* lines 262-265: sendMail's callback, with or without an error
ForgotMail(p) ==
    /\ pc[p] = "forgot_mail"
    /\ \E e \in MailErrors :
        IF e # NULL
        THEN Fail(p, e, Reply(500, "Email failed"))
        ELSE /\ Respond(p, Reply(200, "Reset link sent"))
             /\ UNCHANGED err
    /\ UNCHANGED <<rows, nextId, now, req, user, hashed, tok, hits>>

\* --------------------------------------------------- /reset-password
\* The token presented is a reset token the server's key has signed by now
\* (the key outlives the process and a token is valid wherever it is kept),
\* a token signed with another key, or none.
ResetTokens == {JwtSign(e, 0, ResetTtl, i) : e \in Emails, i \in {j \in Instants : j <= now}}
ResetInputs ==
    {[op |-> "reset", name |-> NULL, email |-> NULL, password |-> w, token |-> t] :
        w \in {"secret1", "newpass1"}, t \in ResetTokens \cup {ForgedToken}}
    \cup {[op |-> "reset", name |-> NULL, email |-> NULL, password |-> w, token |-> t] :
        w \in {NULL, "abc"}, t \in {JwtSign("a@x.com", 0, ResetTtl, 0)}}
    \cup {[op |-> "reset", name |-> NULL, email |-> NULL, password |-> "newpass1", token |-> NoToken]}

\* (variant: the catch block telling a TokenExpiredError from the rest)
ResetStartTellsExpired(p) ==
    /\ pc[p] = "idle"
    /\ \E b \in ResetInputs :
        /\ req' = [req EXCEPT ![p] = b]
        /\ IF b.token = NoToken \/ b.password = NULL
           THEN Respond(p, Reply(400, "Missing token or password"))
           ELSE IF b.token.sig = JWT_SECRET /\ ~JwtVerify(b.token, now)
           THEN Respond(p, Reply(400, "Token expired"))
           ELSE IF ~JwtVerify(b.token, now)
           THEN Respond(p, Reply(400, "Invalid or expired token"))
           ELSE Goto(p, "reset_hash")
    /\ UNCHANGED <<rows, nextId, now, user, hashed, tok, err, hits>>

\* lines 272-284, 297-300: validation and jwt.verify, up to the await of
\* bcrypt.hash
ResetStart(p) ==
    /\ pc[p] = "idle"
    /\ \E b \in ResetInputs :
        /\ req' = [req EXCEPT ![p] = b]
        /\ IF b.token = NoToken \/ b.password = NULL
           THEN Respond(p, Reply(400, "Missing token or password"))
           ELSE IF ~JwtVerify(b.token, now)
           THEN Respond(p, Reply(400, "Invalid or expired token"))
           ELSE Goto(p, "reset_hash")
    /\ UNCHANGED <<rows, nextId, now, user, hashed, tok, err, hits>>

\* lines 284-289, 297-300: bcrypt.hash settles; the UPDATE is issued, or the
\* catch block answers
ResetHash(p) ==
    /\ pc[p] = "reset_hash"
    /\ \E e \in HasherErrors :
        IF e # NULL
        THEN /\ Fail(p, e, Reply(400, "Invalid or expired token"))
             /\ UNCHANGED hashed
        ELSE /\ hashed' = [hashed EXCEPT ![p] = BcryptHash(req[p].password)]
             /\ Goto(p, "reset_update")
             /\ UNCHANGED err
    /\ UNCHANGED <<rows, nextId, now, req, user, tok, hits>>

\* (variant: newPassword bound to the UPDATE in place of its digest)
ResetUpdateStoresPlaintext(p) ==
    /\ pc[p] = "reset_update"
    /\ \E e \in StoreErrors :
        IF e # NULL
        THEN /\ Fail(p, e, Reply(500, "Database error"))
             /\ UNCHANGED rows
        ELSE /\ IF ResetMatches(req[p].token.email, req[p].token) = {}
                THEN /\ Respond(p, Reply(400, "Invalid or expired token"))
                     /\ UNCHANGED rows
                ELSE /\ rows' = UpdatePassword(req[p].password, req[p].token.email, req[p].token)
                     /\ Respond(p, Reply(200, "Password updated"))
             /\ UNCHANGED err
    /\ UNCHANGED <<nextId, now, req, user, hashed, tok, hits>>

\* lines 287-296: the conditional UPDATE and its callback
ResetUpdate(p) ==
    /\ pc[p] = "reset_update"
    /\ \E e \in StoreErrors :
        IF e # NULL
        THEN /\ Fail(p, e, Reply(500, "Database error"))
             /\ UNCHANGED rows
        ELSE /\ IF ResetMatches(req[p].token.email, req[p].token) = {}
                THEN /\ Respond(p, Reply(400, "Invalid or expired token"))
                     /\ UNCHANGED rows
                ELSE /\ rows' = UpdatePassword(hashed[p], req[p].token.email, req[p].token)
                     /\ Respond(p, Reply(200, "Password updated"))
             /\ UNCHANGED err
    /\ UNCHANGED <<nextId, now, req, user, hashed, tok, hits>>

\* ------------------------------------------------------- environment
\* The response has gone out; the slot takes the next inbound request.
Close(p) ==
    /\ pc[p] = "done"
    /\ pc' = [pc EXCEPT ![p] = "idle"]
    /\ req' = [req EXCEPT ![p] = NoReq]
    /\ user' = [user EXCEPT ![p] = NoUser]
    /\ hashed' = [hashed EXCEPT ![p] = NULL]
    /\ tok' = [tok EXCEPT ![p] = NoToken]
    /\ err' = [err EXCEPT ![p] = NULL]
    /\ resp' = [resp EXCEPT ![p] = NoResp]
    /\ UNCHANGED <<rows, nextId, now, hits>>

\* Date.now() moves on; a limiter window that was open has ended when
\* windowMs have passed
Advance ==
    /\ \E t \in Instants :
        /\ t > now /\ now' = t
        /\ hits' = IF t - now >= AuthLimiterWindow THEN 0 ELSE hits
    /\ UNCHANGED <<rows, nextId, pc, req, user, hashed, tok, err, resp>>

\* Any two requests of any kind in flight at once, slots reused without
\* end; of the requests authLimiter counts, MaxHits arrive in a window.
Next ==
    \/ \E p \in Slots : SignupStart(p) /\ hits < MaxHits
    \/ \E p \in Slots : SignupSelect(p)
    \/ \E p \in Slots : SignupHash(p)
    \/ \E p \in Slots : SignupInsert(p)
    \/ \E p \in Slots : LoginStart(p) /\ hits < MaxHits
    \/ \E p \in Slots : LoginSelect(p)
    \/ \E p \in Slots : LoginCompare(p)
    \/ \E p \in Slots : GoogleStart(p)
    \/ \E p \in Slots : GoogleSelect(p)
    \/ \E p \in Slots : GoogleInsert(p)
    \/ \E p \in Slots : GoogleInserted(p)
    \/ \E p \in Slots : GoogleUpdate(p)
    \/ \E p \in Slots : GoogleUpdated(p)
    \/ \E p \in Slots : ForgotStart(p)
    \/ \E p \in Slots : ForgotUpdate(p)
    \/ \E p \in Slots : ForgotMail(p)
    \/ \E p \in Slots : ResetStart(p)
    \/ \E p \in Slots : ResetHash(p)
    \/ \E p \in Slots : ResetUpdate(p)
    \/ \E p \in Slots : Close(p)
    \/ Advance

Spec == Init /\ [][Next]_vars

\* ------------------------------------------- concurrent signups alone
\* NProcs signups in flight at once on the empty table.
NextSignup ==
    \/ \E p \in Procs : SignupStart(p)
    \/ \E p \in Procs : SignupSelect(p)
    \/ \E p \in Procs : SignupHash(p)
    \/ \E p \in Procs : SignupInsert(p)
    \/ Advance

SpecSignup == Init /\ [][NextSignup]_vars

\* --------------------------------------------- the limiter at its max
\* The server as AuthLimiterMax - 1 logins within one second leave it, each
\* answered 401 on the empty table and its slot free again.
InitLimited ==
    /\ rows = {}
    /\ nextId = 1
    /\ now = 0
    /\ pc = [p \in Procs |-> "idle"]
    /\ req = [p \in Procs |-> NoReq]
    /\ user = [p \in Procs |-> NoUser]
    /\ hashed = [p \in Procs |-> NULL]
    /\ tok = [p \in Procs |-> NoToken]
    /\ err = [p \in Procs |-> NULL]
    /\ resp = [p \in Procs |-> NoResp]
    /\ hits = AuthLimiterMax - 1

\* /signup and /login requests, slots reused without end
NextLimiter ==
    \/ \E p \in Slots : SignupStart(p)
    \/ \E p \in Slots : SignupSelect(p)
    \/ \E p \in Slots : SignupHash(p)
    \/ \E p \in Slots : SignupInsert(p)
    \/ \E p \in Slots : LoginStart(p)
    \/ \E p \in Slots : LoginSelect(p)
    \/ \E p \in Slots : LoginCompare(p)
    \/ \E p \in Slots : Close(p)
    \/ Advance

SpecLimiter == InitLimited /\ [][NextLimiter]_vars

\* ------------------------------------- a record with a reset pending
\* The table as /signup and /forgot-password at second 0 leave it: the row
\* of a@x.com with the token signed at second 0 stored on it.
PendingToken == JwtSign("a@x.com", 0, ResetTtl, 0)
PendingRow ==
    [id |-> 1, name |-> "Ana", email |-> "a@x.com", password |-> BcryptHash("secret1"),
     is_google |-> FALSE, reset_token |-> PendingToken, token_expires |-> ResetTtl]

InitPending ==
    /\ rows = {PendingRow}
    /\ nextId = 2
    /\ now = 0
    /\ pc = [p \in Procs |-> "idle"]
    /\ req = [p \in Procs |-> NoReq]
    /\ user = [p \in Procs |-> NoUser]
    /\ hashed = [p \in Procs |-> NULL]
    /\ tok = [p \in Procs |-> NoToken]
    /\ err = [p \in Procs |-> NULL]
    /\ resp = [p \in Procs |-> NoResp]
    /\ hits = 0

\* The /reset-password requests that present the pending token
PendingResets ==
    {b \in ResetInputs : b.token = PendingToken /\ b.password \in {"secret1", "newpass1"}}

\* concurrent /reset-password requests alone, each presenting the pending
\* token
NextResetRace ==
    \/ \E p \in Procs : ResetStart(p) /\ req'[p] \in PendingResets
    \/ \E p \in Procs : ResetHash(p)
    \/ \E p \in Procs : ResetUpdate(p)
    \/ Advance

SpecResetRace == InitPending /\ [][NextResetRace]_vars

\* /forgot-password and /reset-password requests on the pending record
NextRenew ==
    \/ \E p \in Procs : ForgotStart(p)
    \/ \E p \in Procs : ForgotUpdate(p)
    \/ \E p \in Procs : ForgotMail(p)
    \/ \E p \in Procs : ResetStart(p)
    \/ \E p \in Procs : ResetHash(p)
    \/ \E p \in Procs : ResetUpdate(p)
    \/ Advance

SpecRenew == InitPending /\ [][NextRenew]_vars

\* /reset-password requests presenting the pending token, and /login
\* requests giving a password, on the pending record
NextResetLogin ==
    \/ \E p \in Procs : ResetStart(p) /\ req'[p] \in PendingResets
    \/ \E p \in Procs : ResetHash(p)
    \/ \E p \in Procs : ResetUpdate(p)
    \/ \E p \in Procs : LoginStart(p) /\ req'[p].password # NULL
    \/ \E p \in Procs : LoginSelect(p)
    \/ \E p \in Procs : LoginCompare(p)
    \/ Advance

SpecResetLogin == InitPending /\ [][NextResetLogin]_vars

\* --------------------- the server variant of src/unnamed/part_000
\* The second server of src/unnamed/part_000 (lines 162-425), on the same
\* users table.  Its /google-signin differs from the one above in the text
\* of its error responses only, its /forgot-password and /reset-password
\* not at all; its /signup validates presence only, and its /login has no
\* is_google test.

\* part_000 lines 235, 250-256: authLimiter; presence is all that is
\* validated
Part000SignupStart(p) ==
    /\ pc[p] = "idle"
    /\ hits' = Hit
    /\ \E b \in SignupInputs :
        /\ req' = [req EXCEPT ![p] = b]
        /\ IF Hit > AuthLimiterMax
           THEN Respond(p, TooManyRequests)
           ELSE IF b.name = NULL \/ b.email = NULL \/ b.password = NULL
           THEN Respond(p, Reply(400, "All fields are required"))
           ELSE Goto(p, "signup_select")
    /\ UNCHANGED <<rows, nextId, now, user, hashed, tok, err>>

\* part_000 lines 256-267: the SELECT and its callback, up to the await of
\* bcrypt.hash
Part000SignupSelect(p) ==
    /\ pc[p] = "signup_select"
    /\ \E e \in StoreErrors :
        IF e # NULL
        THEN Fail(p, e, Reply(500, "Server error"))
        ELSE /\ IF DbSelect(req[p].email) # {}
                THEN Respond(p, Reply(409, "User already exists"))
                ELSE Goto(p, "signup_hash")
             /\ UNCHANGED err
    /\ UNCHANGED <<rows, nextId, now, req, user, hashed, tok, hits>>

\* part_000 lines 268-275: the INSERT and its callback
Part000SignupInsert(p) ==
    /\ pc[p] = "signup_insert"
    /\ \E e \in StoreErrors :
        LET x == IF e # NULL THEN e ELSE IF DbInsertOk(req[p].email) THEN NULL ELSE DupEntry IN
        IF x # NULL
        THEN /\ Fail(p, x, Reply(500, "Signup failed"))
             /\ UNCHANGED <<rows, nextId>>
        ELSE /\ rows' = rows \cup {NewRow(req[p].name, req[p].email, hashed[p], FALSE)}
             /\ nextId' = nextId + 1
             /\ Respond(p, Reply(200, "Signed up successfully"))
             /\ UNCHANGED err
    /\ UNCHANGED <<now, req, user, hashed, tok, hits>>

\* part_000 lines 234, 284-290: authLimiter; the SELECT is issued
Part000LoginStart(p) ==
    /\ pc[p] = "idle"
    /\ hits' = Hit
    /\ \E b \in LoginInputs : req' = [req EXCEPT ![p] = b]
    /\ IF Hit > AuthLimiterMax
       THEN Respond(p, TooManyRequests)
       ELSE Goto(p, "login_select")
    /\ UNCHANGED <<rows, nextId, now, user, hashed, tok, err>>

\* part_000 lines 287-297: the SELECT and its callback; results[0] goes
\* straight to bcrypt.compare
Part000LoginSelect(p) ==
    /\ pc[p] = "login_select"
    /\ \E e \in StoreErrors :
        IF e # NULL
        THEN /\ Fail(p, e, Reply(500, "Server error"))
             /\ UNCHANGED user
        ELSE LET u == First(DbSelect(req[p].email)) IN
             /\ user' = [user EXCEPT ![p] = u]
             /\ IF u = NoUser
                THEN Respond(p, Reply(401, "Invalid email or password"))
                ELSE Goto(p, "login_compare")
             /\ UNCHANGED err
    /\ UNCHANGED <<rows, nextId, now, req, hashed, tok, hits>>

\* part_000 lines 297-310: bcrypt.compare settles; it rejects when the
\* password or the hash is missing, the async callback then throws and no
\* response is sent
Part000LoginCompare(p) ==
    /\ pc[p] = "login_compare"
    /\ LET u == user[p] IN
        IF req[p].password = NULL \/ u.password = NULL
        THEN /\ Goto(p, "login_thrown")
             /\ UNCHANGED err
        ELSE \E e \in HasherErrors :
             IF e # NULL
             THEN /\ err' = [err EXCEPT ![p] = e]
                  /\ Goto(p, "login_thrown")
             ELSE /\ IF ~BcryptCompare(req[p].password, u.password)
                     THEN Respond(p, Reply(401, "Invalid email or password"))
                     ELSE Respond(p, ReplyToken("Login successful",
                                                JwtSign(u.email, u.id, SessionTtl, now),
                                                UserProjection(u)))
                  /\ UNCHANGED err
    /\ UNCHANGED <<rows, nextId, now, req, user, hashed, tok, hits>>

\* part_000 lines 327-334: the INSERT, and its callback when handed err
Part000GoogleInsert(p) ==
    /\ pc[p] = "google_insert"
    /\ \E e \in StoreErrors :
        LET x == IF e # NULL THEN e ELSE IF DbInsertOk(req[p].email) THEN NULL ELSE DupEntry IN
        IF x # NULL
        THEN /\ Fail(p, x, Reply(500, "Failed to insert Google user"))
             /\ UNCHANGED <<rows, nextId>>
        ELSE /\ rows' = rows \cup {NewRow(req[p].name, req[p].email, NULL, TRUE)}
             /\ nextId' = nextId + 1
             /\ Goto(p, "google_inserted")
             /\ UNCHANGED err
    /\ UNCHANGED <<now, req, user, hashed, tok, hits>>

\* part_000 lines 346-353: the UPDATE, and its callback when handed err
Part000GoogleUpdate(p) ==
    /\ pc[p] = "google_update"
    /\ \E e \in StoreErrors :
        IF e # NULL
        THEN /\ Fail(p, e, Reply(500, "Failed to update Google user"))
             /\ UNCHANGED rows
        ELSE /\ rows' = UpdateGoogle(req[p].name, req[p].email)
             /\ Goto(p, "google_updated")
             /\ UNCHANGED err
    /\ UNCHANGED <<nextId, now, req, user, hashed, tok, hits>>

\* The five routes of the variant, two requests in flight at once.
\* SignupHash, GoogleStart and GoogleSelect are the code of part_000 lines
\* 266-270 with 276-278, 316-322 and 322-327 as well; its /forgot-password
\* (lines 367-399) and /reset-password (lines 402-425) are, statement for
\* statement, the ones of part_001.
NextPart000 ==
    \/ \E p \in Slots : Part000SignupStart(p) /\ hits < MaxHits
    \/ \E p \in Slots : Part000SignupSelect(p)
    \/ \E p \in Slots : SignupHash(p)
    \/ \E p \in Slots : Part000SignupInsert(p)
    \/ \E p \in Slots : Part000LoginStart(p) /\ hits < MaxHits
    \/ \E p \in Slots : Part000LoginSelect(p)
    \/ \E p \in Slots : Part000LoginCompare(p)
    \/ \E p \in Slots : GoogleStart(p)
    \/ \E p \in Slots : GoogleSelect(p)
    \/ \E p \in Slots : Part000GoogleInsert(p)
    \/ \E p \in Slots : GoogleInserted(p)
    \/ \E p \in Slots : Part000GoogleUpdate(p)
    \/ \E p \in Slots : GoogleUpdated(p)
    \/ \E p \in Slots : ForgotStart(p)
    \/ \E p \in Slots : ForgotUpdate(p)
    \/ \E p \in Slots : ForgotMail(p)
    \/ \E p \in Slots : ResetStart(p)
    \/ \E p \in Slots : ResetHash(p)
    \/ \E p \in Slots : ResetUpdate(p)
    \/ \E p \in Slots : Close(p)
    \/ Advance

SpecPart000 == Init /\ [][NextPart000]_vars

\* ================================================================ claims
InvalidOrExpiredToken == Reply(400, "Invalid or expired token")
RowOf(email) == First(DbSelect(email))

\* C1: in every reachable state the users table holds at most one row per
\* email, whatever requests have run and however they interleaved.
C1_EmailUnique == \A r1 \in rows : \A r2 \in rows : r1.email = r2.email => r1 = r2

\* an INSERT has been refused by the constraint and the first row stands
C1_Witness ==
    \E p \in Procs :
        /\ pc[p] = "done" /\ resp[p].status = 500 /\ err[p] = DupEntry
        /\ req[p].op \in {"signup", "google"}
        /\ Cardinality(DbSelect(req[p].email)) = 1

\* The valid signups for one email
SignupsFor(e) ==
    {p \in Procs : req[p].op = "signup" /\ req[p].email = e /\ SignupValidation(req[p]) = NoResp}

\* C2: when the valid signups for a previously unregistered email have all
\* finished, at most one of them has succeeded and the email has as many
\* rows as signups succeeded; and when neither the store nor the hasher
\* failed any of them, exactly one has succeeded and exactly one row for
\* that email exists.
C2_OneSignupWins ==
    \A e \in Emails :
        (SignupsFor(e) # {} /\ \A p \in SignupsFor(e) : pc[p] = "done")
        => LET won == {p \in SignupsFor(e) : resp[p].status = 200} IN
           /\ Cardinality(won) <= 1
           /\ Cardinality(DbSelect(e)) = Cardinality(won)
           /\ (\A p \in SignupsFor(e) : err[p] \in {NULL, DupEntry})
              => Cardinality(won) = 1

\* every slot ran a valid signup for a@x.com, none met a failing store or
\* hasher, and one lost at the INSERT
C2_Witness ==
    /\ SignupsFor("a@x.com") = Procs
    /\ \A p \in Procs : pc[p] = "done" /\ err[p] \in {NULL, DupEntry}
    /\ \E p \in Procs : resp[p].status = 500 /\ err[p] = DupEntry

\* C3: a signup whose own existence check found no row and whose INSERT the
\* uniqueness constraint refused is answered with the conflict outcome (409).
C3_LoserGetsDuplicateAccount ==
    \A p \in Procs :
        (req[p].op = "signup" /\ pc[p] = "done" /\ err[p] = DupEntry)
        => resp[p].status = 409

\* C4: a login whose SELECT returned a row with is_google set is answered
\* 403 and carries no token, whatever the password and the stored hash.
C4_FederatedLoginRefused ==
    \A p \in Procs :
        (req[p].op = "login" /\ pc[p] \in {"done", "login_thrown"} /\ user[p].is_google)
        => (resp[p].status = 403 /\ resp[p].token = NoToken)

\* two refused logins: one on a federated row without a hash, one with a hash
C4_Witness ==
    \E p \in Procs : \E q \in Procs :
        /\ req[p].op = "login" /\ pc[p] = "done" /\ user[p].is_google
        /\ user[p].password = NULL /\ resp[p].status = 403
        /\ req[q].op = "login" /\ pc[q] = "done" /\ user[q].is_google
        /\ user[q].password # NULL /\ resp[q].status = 403

\* C5: /reset-password succeeds at most once per reset token: no two
\* requests are both answered "Password updated" for the same token.
C5_ResetAtMostOncePerToken ==
    \A p \in Procs : \A q \in Procs :
        (/\ p # q
         /\ req[p].op = "reset" /\ pc[p] = "done" /\ resp[p].status = 200
         /\ req[q].op = "reset" /\ pc[q] = "done" /\ resp[q].status = 200)
        => req[p].token # req[q].token

\* The requests that presented the pending token and passed jwt.verify
ResetsOfPending ==
    {p \in Procs : req[p].op = "reset" /\ req[p].token = PendingToken /\ hashed[p] # NULL}

\* C6: when the concurrent resets presenting the same valid token have all
\* finished, the store having run the UPDATE of each, exactly one was
\* answered 200, the others "Invalid or expired token", and the stored
\* password is the digest the winner computed.
C6_OneResetWins ==
    (/\ ResetsOfPending # {}
     /\ \A p \in ResetsOfPending : pc[p] = "done" /\ err[p] = NULL)
    => \E w \in ResetsOfPending :
        /\ resp[w].status = 200
        /\ \A q \in ResetsOfPending \ {w} : resp[q] = InvalidOrExpiredToken
        /\ RowOf("a@x.com").password = hashed[w]

\* every slot presented the pending token, with different new passwords
C6_Witness ==
    /\ ResetsOfPending = Procs
    /\ \A p \in Procs : pc[p] = "done" /\ err[p] = NULL
    /\ \E p \in Procs : \E q \in Procs : hashed[p] # hashed[q]

\* A /forgot-password for this email has succeeded
RenewedFor(email) ==
    \E q \in Procs : req[q].op = "forgot" /\ req[q].email = email
                      /\ pc[q] = "done" /\ resp[q].status = 200

\* C7: the UPDATE of /reset-password, when the store runs it, changes a
\* row only if the token
\* presented is the one stored; presenting the older token after a newer
\* /forgot-password has succeeded, or presenting a token when none is
\* stored, is answered "Invalid or expired token" and changes nothing.
C7_OnlyCurrentTokenResets ==
    [][\A p \in Procs :
        (pc[p] = "reset_update" /\ pc'[p] = "done" /\ err'[p] = NULL)
        => /\ rows' # rows => RowOf(req[p].token.email).reset_token = req[p].token
           /\ (req[p].token = PendingToken /\ RenewedFor("a@x.com"))
              => (resp'[p] = InvalidOrExpiredToken /\ rows' = rows)
           /\ RowOf(req[p].token.email).reset_token = NoToken
              => (resp'[p] = InvalidOrExpiredToken /\ rows' = rows)]_vars

\* C8: a /reset-password presenting a well-signed token whose exp has
\* passed is answered "Invalid or expired token" at once and the table is
\* unchanged, also when that token is the one stored.
C8_ExpiredTokenRejected ==
    [][\A p \in Procs :
        (/\ pc[p] = "idle" /\ req'[p].op = "reset"
         /\ req'[p].password # NULL
         /\ req'[p].token.sig = JWT_SECRET /\ now >= req'[p].token.exp)
        => (pc'[p] = "done" /\ resp'[p] = InvalidOrExpiredToken /\ rows' = rows)]_vars

\* an expired token, still the one stored, was presented and refused
C8_Witness ==
    \E p \in Procs :
        /\ req[p].op = "reset" /\ pc[p] = "done" /\ req[p].password # NULL
        /\ req[p].token.sig = JWT_SECRET /\ now >= req[p].token.exp
        /\ hashed[p] = NULL /\ resp[p] = InvalidOrExpiredToken
        /\ RowOf(req[p].token.email).reset_token = req[p].token

\* The row of rows' that continues row r
After(r) == CHOOSE x \in rows' : x.id = r.id

\* C9: in every step and for every row, the stored token is cleared only
\* in a step that also writes the digest of a /reset-password and clears
\* the expiry, and a /reset-password answered 200 has in that same step
\* written its digest and cleared both reset fields.
C9_ResetAtomic ==
    [][\A r \in rows :
        /\ (r.reset_token # NoToken /\ After(r).reset_token = NoToken)
           => /\ After(r).token_expires = 0
              /\ \E p \in Procs : pc[p] = "reset_update" /\ After(r).password = hashed[p]
        /\ \A p \in Procs :
              (/\ pc[p] = "reset_update" /\ pc'[p] = "done" /\ resp'[p].status = 200
               /\ req[p].token.email = r.email)
              => /\ After(r).password = hashed[p]
                 /\ After(r).reset_token = NoToken
                 /\ After(r).token_expires = 0]_vars

\* a reset has replaced the signup password and cleared the reset fields
C9_Witness ==
    \E p \in Procs :
        /\ req[p].op = "reset" /\ pc[p] = "done" /\ resp[p].status = 200
        /\ hashed[p] = BcryptHash("newpass1")
        /\ RowOf(req[p].token.email).password = hashed[p]
        /\ RowOf(req[p].token.email).reset_token = NoToken
        /\ RowOf(req[p].token.email).token_expires = 0

\* C10: a /google-signin with name and email present, none of whose
\* queries the store failed to run, always ends with a session token
\* issued and the row of that email flagged is_google.
C10_GoogleNeverRejects ==
    \A p \in Procs :
        (/\ req[p].op = "google" /\ req[p].name # NULL /\ req[p].email # NULL
         /\ pc[p] = "done" /\ err[p] # StoreFault)
        => /\ resp[p].status = 200
           /\ resp[p].token # NoToken
           /\ RowOf(req[p].email).is_google

\* C11: when the store runs the query: a /google-signin INSERT on an email
\* without a row adds exactly one row, flagged is_google, without a
\* password and without reset fields; a /google-signin UPDATE finds the row
\* of the email, sets its name to the given one and is_google to TRUE, and
\* leaves its password, reset_token, token_expires, id and email, and the
\* number of rows, as they were; the callback of either then answers 200
\* and writes nothing.
C11_GoogleEffects ==
    [][\A p \in Procs :
        /\ (/\ pc[p] = "google_insert" /\ pc'[p] # "google_insert"
            /\ DbSelect(req[p].email) = {} /\ err'[p] = NULL)
           => /\ pc'[p] = "google_inserted"
              /\ \E r \in rows' :
                    /\ rows' = rows \cup {r} /\ r \notin rows
                    /\ r.email = req[p].email /\ r.name = req[p].name
                    /\ r.is_google /\ r.password = NULL
                    /\ r.reset_token = NoToken /\ r.token_expires = 0
        /\ (pc[p] \in {"google_inserted", "google_updated"} /\ pc'[p] # pc[p])
           => (pc'[p] = "done" /\ resp'[p].status = 200 /\ rows' = rows)
        /\ (pc[p] = "google_update" /\ pc'[p] # "google_update" /\ err'[p] = NULL)
           => /\ DbSelect(req[p].email) # {}
              /\ pc'[p] = "google_updated"
              /\ Cardinality(rows') = Cardinality(rows)
              /\ \A r \in DbSelect(req[p].email) :
                    /\ After(r).name = req[p].name
                    /\ After(r).is_google
                    /\ After(r).password = r.password
                    /\ After(r).reset_token = r.reset_token
                    /\ After(r).token_expires = r.token_expires
                    /\ After(r).email = r.email]_vars

\* one sign-in created the row; later, with a password set by a reset and a
\* new reset pending on the row, another sign-in updated it
C11_Witness ==
    \E p \in Procs : \E q \in Procs :
        /\ req[p].op = "google" /\ pc[p] = "done" /\ resp[p].msg = "Google user created"
        /\ req[q].op = "google" /\ pc[q] = "done" /\ resp[q].msg = "Google user updated"
        /\ RowOf("a@x.com").password # NULL
        /\ RowOf("a@x.com").reset_token # NoToken
        /\ RowOf("a@x.com").is_google /\ RowOf("a@x.com").name = "Bo"

\* C12: the /login SELECT, when the store runs it, hands its callback the
\* row the table holds for the email; with no row the callback answers 401
\* "User not found", and it goes on to bcrypt.compare exactly when there is
\* a row that is not is_google.  A token is sent only once bcrypt.compare
\* has settled, and only when the password given is the one whose digest
\* that row holds; when a password is given that does not match, and the
\* hasher has not failed, the answer is 401 "Invalid password".  No
\* response carries the stored digest, and a user object has no password
\* field.
C12_LoginIssuesTokenOnlyOnMatch ==
    [][\A p \in Procs :
        /\ (pc[p] = "login_select" /\ pc'[p] # "login_select" /\ err'[p] = NULL)
           => LET u == RowOf(req[p].email) IN
               /\ user'[p] = u
               /\ u = NoUser => resp'[p] = Reply(401, "User not found")
               /\ pc'[p] = "login_compare" <=> (u # NoUser /\ ~u.is_google)
        /\ (pc[p] = "login_select" /\ pc'[p] # "login_select") => resp'[p].token = NoToken
        /\ (pc[p] = "login_compare" /\ pc'[p] # "login_compare")
           => LET u == user[p] IN
               /\ resp'[p].token # NoToken
                  => /\ u # NoUser /\ ~u.is_google
                     /\ req[p].password # NULL /\ u.password = BcryptHash(req[p].password)
               /\ (/\ req[p].password # NULL /\ u.password # BcryptHash(req[p].password)
                   /\ err'[p] = NULL)
                  => resp'[p] = Reply(401, "Invalid password")
               /\ DOMAIN resp'[p].user = {"name", "email"}
               /\ u.password # NULL
                  => /\ resp'[p].msg # u.password
                     /\ \A f \in DOMAIN resp'[p].user : resp'[p].user[f] # u.password]_vars

\* after a reset replaced the digest: a login with the new password holds
\* a token, a login with the old password was refused
C12_Witness ==
    \E p \in Procs : \E q \in Procs :
        /\ req[p].op = "login" /\ pc[p] = "done" /\ req[p].password = "newpass1"
        /\ resp[p].token # NoToken /\ resp[p].user.email = req[p].email
        /\ RowOf(req[p].email).password = BcryptHash("newpass1")
        /\ req[q].op = "login" /\ pc[q] = "done" /\ req[q].password = "secret1"
        /\ resp[q] = Reply(401, "Invalid password")

\* C13: a /signup whose SELECT the store runs and which finds a row for the
\* email, be it a password row or an is_google row, is answered 409 "Email
\* already exists"; it ends there also when the store fails the SELECT; and
\* no step of a /signup changes or removes a row that exists.
C13_SignupOnExistingEmail ==
    [][\A p \in Procs :
        /\ (pc[p] = "signup_select" /\ pc'[p] # "signup_select" /\ DbSelect(req[p].email) # {})
           => /\ pc'[p] = "done"
              /\ err'[p] = NULL => resp'[p] = Reply(409, "Email already exists")
        /\ ((req[p].op = "signup" \/ req'[p].op = "signup") /\ pc'[p] # pc[p])
           => rows \subseteq rows']_vars

\* a signup was refused on a row that /google-signin created (no password)
\* and that has a reset pending
C13_Witness ==
    \E p \in Procs :
        /\ req[p].op = "signup" /\ pc[p] = "done"
        /\ resp[p] = Reply(409, "Email already exists")
        /\ RowOf(req[p].email).is_google /\ RowOf(req[p].email).password = NULL
        /\ RowOf(req[p].email).reset_token # NoToken

\* C14: a /signup answered 200 has in that step added exactly one row: its
\* name and email are the ones given, its password is the bcrypt digest of
\* the password given (and not that password), is_google is FALSE and both
\* reset fields are NULL; and no response to a /signup carries a token or a
\* user object.
C14_SignupCreatesPasswordRow ==
    [][\A p \in Procs :
        /\ (pc[p] = "signup_insert" /\ pc'[p] = "done" /\ resp'[p].status = 200)
           => \E r \in rows' :
                /\ rows' = rows \cup {r} /\ r \notin rows
                /\ r.name = req[p].name /\ r.email = req[p].email
                /\ r.password = BcryptHash(req[p].password)
                /\ r.password # req[p].password /\ r.password # NULL
                /\ ~r.is_google
                /\ r.reset_token = NoToken /\ r.token_expires = 0
        /\ req'[p].op = "signup"
           => (resp'[p].token = NoToken /\ resp'[p].user = NoProjection)]_vars

\* a signup has succeeded and its row stands as it wrote it
C14_Witness ==
    \E p \in Procs :
        /\ req[p].op = "signup" /\ pc[p] = "done"
        /\ resp[p] = Reply(200, "User created")
        /\ RowOf(req[p].email).password = BcryptHash(req[p].password)
        /\ ~RowOf(req[p].email).is_google
        /\ RowOf(req[p].email).reset_token = NoToken

\* The /forgot-password requests answered 500 "Email failed"
MailFailed == {p \in Procs : req[p].op = "forgot" /\ pc[p] = "done"
                              /\ resp[p] = Reply(500, "Email failed")}

\* C15: the step of /forgot-password that calls sendMail has stored the
\* token and its expiry on the row; sendMail's callback, failing or not,
\* leaves the table as it is and answers 500 "Email failed" on an error;
\* and while the token of a request so answered is still the one stored, a
\* /reset-password presenting it before its exp passes jwt.verify and,
\* the hasher and the store not failing it, is answered 200 and has its
\* digest written.
C15_TokenSurvivesMailFailure ==
    [][\A p \in Procs :
        /\ (pc[p] = "forgot_update" /\ pc'[p] = "forgot_mail")
           => \E r \in rows' :
                /\ r.email = req[p].email
                /\ r.reset_token = tok[p] /\ r.reset_token # NoToken
                /\ r.token_expires = tok[p].exp
        /\ (pc[p] = "forgot_mail" /\ pc'[p] # "forgot_mail")
           => /\ rows' = rows
              /\ resp'[p] = IF err'[p] = MailFault THEN Reply(500, "Email failed")
                                                 ELSE Reply(200, "Reset link sent")
        /\ (p \in MailFailed /\ RowOf(req[p].email).reset_token = tok[p])
           => \A q \in Procs :
                /\ (/\ pc[q] = "idle" /\ req'[q].op = "reset" /\ req'[q].token = tok[p]
                    /\ req'[q].password # NULL /\ now < tok[p].exp)
                   => pc'[q] = "reset_hash"
                /\ (/\ pc[q] = "reset_hash" /\ req[q].token = tok[p]
                    /\ pc'[q] # "reset_hash" /\ err'[q] = NULL)
                   => pc'[q] = "reset_update"
                /\ (/\ pc[q] = "reset_update" /\ req[q].token = tok[p]
                    /\ pc'[q] # "reset_update" /\ err'[q] = NULL)
                   => /\ resp'[q] = Reply(200, "Password updated")
                      /\ \E r \in rows' : r.email = req[p].email /\ r.password = hashed[q]]_vars

\* the mail of a /forgot-password failed, and a /reset-password presenting
\* the token that request had signed has replaced the password
C15_Witness ==
    \E p \in MailFailed : \E q \in Procs :
        /\ req[q].op = "reset" /\ pc[q] = "done" /\ req[q].token = tok[p]
        /\ resp[q] = Reply(200, "Password updated")
        /\ hashed[q] = BcryptHash("newpass1")
        /\ RowOf(req[p].email).password = hashed[q]

\* C16: a /forgot-password with a well-formed email that has no row ends
\* at its UPDATE: the callback answers 404 "User not found" when the store
\* has run the UPDATE (which matches no row), it never comes to call
\* sendMail, and no step of it changes the table.
C16_ForgotUnknownEmail ==
    [][\A p \in Procs :
        /\ (pc[p] = "idle" /\ req'[p].op = "forgot") => rows' = rows
        /\ (/\ pc[p] = "forgot_update" /\ pc'[p] # "forgot_update"
            /\ IsEmail(req[p].email) /\ DbSelect(req[p].email) = {})
           => /\ pc'[p] = "done"
              /\ err'[p] = NULL => resp'[p] = Reply(404, "User not found")
              /\ rows' = rows]_vars

\* a /forgot-password for b@x.com, which has no row, was answered 404
\* while the row of a@x.com stands with its own reset pending
C16_Witness ==
    \E p \in Procs :
        /\ req[p].op = "forgot" /\ req[p].email = "b@x.com" /\ pc[p] = "done"
        /\ resp[p] = Reply(404, "User not found")
        /\ DbSelect("b@x.com") = {}
        /\ RowOf("a@x.com").reset_token # NoToken

\* C17: in every reachable state every row has reset_token NULL exactly
\* when it has token_expires NULL.
C17_ResetFieldsTogether ==
    \A r \in rows : (r.reset_token = NoToken) <=> (r.token_expires = 0)

\* a row whose reset fields were set, cleared by a reset, and set again
C17_Witness ==
    \E p \in Procs : \E q \in Procs :
        /\ req[p].op = "reset" /\ pc[p] = "done" /\ resp[p].status = 200
        /\ req[q].op = "forgot" /\ pc[q] = "forgot_mail"
        /\ RowOf(req[q].email).reset_token = tok[q]
        /\ RowOf(req[q].email).token_expires = tok[q].exp
        /\ tok[q] # req[p].token

\* C18: a reset token that was consumed or has expired is cleared: no row
\* holds reset fields whose expiry has passed, and no row holds the token a
\* /reset-password answered 200 has consumed.
C18_ConsumedOrExpiredTokenCleared ==
    /\ \A r \in rows :
          (r.reset_token # NoToken \/ r.token_expires # 0) => now < r.token_expires
    /\ \A p \in Procs :
          (req[p].op = "reset" /\ pc[p] = "done" /\ resp[p].status = 200)
          => RowOf(req[p].token.email).reset_token # req[p].token

\* C19: in every step, every row that has is_google set is still in the
\* table afterwards and still has is_google set.
C19_GoogleFlagMonotonic ==
    [][\A r \in rows :
        r.is_google => (\E x \in rows' : x.id = r.id /\ x.email = r.email /\ x.is_google)]_vars

\* the row /google-signin created has since been given a password by a
\* /reset-password and is still flagged
C19_Witness ==
    \E p \in Procs : \E q \in Procs :
        /\ req[q].op = "google" /\ pc[q] = "done" /\ resp[q].msg = "Google user created"
        /\ req[p].op = "reset" /\ pc[p] = "done" /\ resp[p].status = 200
        /\ req[p].token.email = req[q].email
        /\ RowOf(req[q].email).password = hashed[p]
        /\ RowOf(req[q].email).is_google

\* C20: every row without a password has is_google set, before and after
\* every step; and a /login whose SELECT meets such a row ends at that
\* SELECT without a token, answered 403 when the store has run it: no
\* request stands at bcrypt.compare with a row that has no password.
C20_NoPasswordNoLogin ==
    [][/\ \A r \in rows \cup rows' : r.password = NULL => r.is_google
       /\ \A p \in Procs :
            (/\ pc[p] = "login_select" /\ pc'[p] # "login_select"
             /\ RowOf(req[p].email) # NoUser /\ RowOf(req[p].email).password = NULL)
            => /\ pc'[p] = "done"
               /\ err'[p] = NULL => resp'[p] = Reply(403, "Use Google Sign-In instead")
               /\ resp'[p].token = NoToken
       /\ \A p \in Procs :
            pc'[p] = "login_compare" => (user'[p] # NoUser /\ user'[p].password # NULL)]_vars

\* a login giving a password was refused on a row that has none, while a
\* reset is pending on that row
C20_Witness ==
    \E p \in Procs :
        /\ req[p].op = "login" /\ pc[p] = "done" /\ req[p].password # NULL
        /\ resp[p] = Reply(403, "Use Google Sign-In instead")
        /\ user[p].password = NULL
        /\ RowOf(req[p].email).password = NULL
        /\ RowOf(req[p].email).reset_token # NoToken

\* C21: every session token sent, by /login and by /google-signin (after
\* its INSERT and after its UPDATE), has as claims the email of the request
\* and the id of the row of that email.
C21_SessionTokenCarriesEmailAndId ==
    \A p \in Procs :
        (pc[p] = "done" /\ resp[p].token # NoToken)
        => /\ resp[p].token.email = req[p].email
           /\ resp[p].token.id = RowOf(req[p].email).id

\* C22: on the record signed up with "secret1" and holding the pending
\* token, once a /reset-password presenting that token has been answered
\* 200, the SELECT of a /login returns the row with the digest of that
\* request's password, and a /login that holds the row as it is since then
\* is answered with a token when it gives the password of that request
\* and 401 "Invalid password" when it gives "secret1" and that differs
\* from the new password (the store and the hasher not failing it).
C22_LoginAfterReset ==
    [][\A p \in Procs : \A q \in Procs :
        (/\ req[p].email = PendingRow.email
         /\ req[q].op = "reset" /\ req[q].token = PendingToken
         /\ pc[q] = "done" /\ resp[q] = Reply(200, "Password updated")
         /\ err'[p] = NULL)
        => /\ (pc[p] = "login_select" /\ pc'[p] # "login_select")
              => /\ pc'[p] = "login_compare"
                 /\ user'[p].password = BcryptHash(req[q].password)
           /\ (/\ pc[p] = "login_compare" /\ pc'[p] # "login_compare"
               /\ user[p] = RowOf(req[p].email))
              => /\ req[p].password = req[q].password
                    => (resp'[p].status = 200 /\ resp'[p].token # NoToken)
                 /\ (req[p].password = "secret1" /\ req[q].password # "secret1")
                    => resp'[p] = Reply(401, "Invalid password")]_vars

\* the pending token was used to set "newpass1"; a login with "newpass1"
\* holds a token and a login with "secret1" was refused
C22_Witness ==
    \E p \in Procs : \E q \in Procs : \E o \in Procs :
        /\ req[q].op = "reset" /\ req[q].token = PendingToken /\ req[q].password = "newpass1"
        /\ pc[q] = "done" /\ resp[q] = Reply(200, "Password updated")
        /\ req[p].op = "login" /\ req[p].password = "newpass1" /\ pc[p] = "done"
        /\ resp[p].token # NoToken
        /\ req[o].op = "login" /\ req[o].password = "secret1" /\ pc[o] = "done"
        /\ resp[o] = Reply(401, "Invalid password")

\* C23: a /reset-password with token and password present is answered
\* with one and the same response, 400 "Invalid or expired token", when
\* the token's signature is bad, when its exp has passed, when the row
\* holds no token any more (consumed) and when the row holds another token
\* (superseded); every response to a /reset-password whose UPDATE the
\* store has not failed is that one, the success or the missing-field
\* rejection.
C23_ResetFailuresIndistinguishable ==
    [][\A p \in Procs :
        /\ (/\ pc[p] = "idle" /\ req'[p].op = "reset"
            /\ req'[p].token # NoToken /\ req'[p].password # NULL
            /\ (req'[p].token.sig # JWT_SECRET \/ now >= req'[p].token.exp))
           => (pc'[p] = "done" /\ resp'[p] = InvalidOrExpiredToken)
        /\ (/\ pc[p] = "reset_update" /\ pc'[p] # "reset_update"
            /\ RowOf(req[p].token.email).reset_token # req[p].token
            /\ err'[p] = NULL)
           => (pc'[p] = "done" /\ resp'[p] = InvalidOrExpiredToken)
        /\ (req'[p].op = "reset" /\ pc'[p] = "done" /\ err'[p] # StoreFault)
           => resp'[p] \in {InvalidOrExpiredToken, Reply(200, "Password updated"),
                            Reply(400, "Missing token or password")}]_vars

\* two refused resets with the same response: one for a bad signature,
\* one whose well-signed, unexpired token had been superseded on the row
C23_Witness ==
    \E p \in Procs : \E q \in Procs :
        /\ req[p].op = "reset" /\ pc[p] = "done" /\ req[p].token = ForgedToken
        /\ req[q].op = "reset" /\ pc[q] = "done" /\ hashed[q] # NULL
        /\ now < req[q].token.exp
        /\ RowOf(req[q].token.email).reset_token # NoToken
        /\ RowOf(req[q].token.email).reset_token # req[q].token
        /\ RowOf(req[q].token.email).password # hashed[q]
        /\ resp[p] = resp[q] /\ resp[p] = InvalidOrExpiredToken

\* The request bodies the validations are to reject
MissingOrMalformed(b) ==
    \/ /\ b.op = "signup"
       /\ \/ b.name = NULL \/ b.email = NULL \/ b.password = NULL
          \/ b.email = "a@x"
          \/ Len(b.password) < MinPasswordLen
    \/ b.op = "google" /\ (b.name = NULL \/ b.email = NULL)
    \/ b.op = "forgot" /\ b.email = "a@x"
    \/ b.op = "reset" /\ (b.token = NoToken \/ b.password = NULL)

\* C24: a /signup with name, email or password missing, a malformed email
\* or a password under 6 characters, a /google-signin with name or email
\* missing, a /forgot-password with a malformed email and a
\* /reset-password with token or password missing is answered 400 in the
\* step that receives it (authLimiter not yet at its max): it issues no
\* query, computes no digest, signs no token, and the table and the id
\* counter are as before.
C24_RejectedBeforeStorage ==
    [][\A p \in Procs :
        (/\ pc[p] = "idle" /\ pc'[p] # "idle" /\ MissingOrMalformed(req'[p])
         /\ hits < AuthLimiterMax)
        => /\ pc'[p] = "done" /\ resp'[p].status = 400
           /\ resp'[p].token = NoToken
           /\ hashed'[p] = NULL /\ tok'[p] = NoToken
           /\ rows' = rows /\ nextId' = nextId]_vars

\* a signup with a 3-character password and a google sign-in without an
\* email were both refused for the email of a row that stands
C24_Witness ==
    \E p \in Procs : \E q \in Procs :
        /\ req[p].op = "signup" /\ req[p].password = "abc" /\ pc[p] = "done"
        /\ resp[p] = Reply(400, "Password must be at least 6 characters")
        /\ req[q].op = "google" /\ req[q].email = NULL /\ pc[q] = "done"
        /\ resp[q] = Reply(400, "Missing name or email")
        /\ DbSelect("a@x.com") # {}

\* The places where a request waits for the store, the hasher or the mail
\* transport to call back (each does, by assumption)
Waiting == {"signup_select", "signup_hash", "signup_insert", "login_select",
            "login_compare", "google_select", "google_insert", "google_inserted",
            "google_update", "google_updated",
            "forgot_update", "forgot_mail", "reset_hash", "reset_update"}

\* C25: no request is left without a response: a request that has been
\* received and waits for no callback any more has been sent its response.
C25_EveryRequestAnswered ==
    \A p \in Procs :
        (pc[p] # "idle" /\ pc[p] \notin Waiting) => resp[p].status # 0

\* The instants a session token is presented at: from its signing up to
\* after its 7 days
SessionInstants(k) ==
    {k.iat, k.iat + 1, k.iat + ResetTtl, k.iat + SessionTtl - 1,
     k.iat + SessionTtl + 1, k.iat + 2 * SessionTtl}

\* C26: the token of a successful /login has the email of the row as its
\* subject, and jwt.verify accepts it at every instant before 7 days after
\* its signing and rejects it at every instant after.
C26_SessionTokenLifetime ==
    \A p \in Procs :
        (req[p].op = "login" /\ pc[p] = "done" /\ resp[p].token # NoToken)
        => LET k == resp[p].token IN
            /\ k.email = user[p].email /\ k.email = req[p].email /\ k.iat <= now
            /\ \A t \in SessionInstants(k) :
                 /\ t < k.iat + SessionTtl => JwtVerify(k, t)
                 /\ t > k.iat + SessionTtl => ~JwtVerify(k, t)

\* a login at second 1 holds a token; an hour has passed since
C26_Witness ==
    \E p \in Procs :
        /\ req[p].op = "login" /\ pc[p] = "done" /\ resp[p].token # NoToken
        /\ resp[p].token.iat = 1 /\ now = ResetTtl
        /\ ~user[p].is_google

\* The /google-signin requests for this email that were answered with a token
SignedInWithGoogle(email) ==
    {q \in Procs : req[q].op = "google" /\ req[q].email = email
                   /\ pc[q] = "done" /\ resp[q].status = 200}

\* C27: from the moment a /google-signin for an email has been answered
\* with a token, the row of that email is flagged is_google in every later
\* state, and every /login for that email whose SELECT comes after ends at
\* that SELECT without a token, answered 403 "Use Google Sign-In instead"
\* when the store has run it, whatever password is given and whatever
\* digest signup or a reset has stored.
C27_NoPasswordLoginAfterGoogle ==
    [][\A p \in Procs :
        SignedInWithGoogle(req[p].email) # {}
        => /\ RowOf(req[p].email).is_google
           /\ \E r \in rows' : r.email = req[p].email /\ r.is_google
           /\ (pc[p] = "login_select" /\ pc'[p] # "login_select")
              => /\ pc'[p] = "done" /\ resp'[p].token = NoToken
                 /\ err'[p] = NULL => resp'[p] = Reply(403, "Use Google Sign-In instead")]_vars

\* after a google sign-in on a password account, a login giving the
\* password whose digest the row holds was refused
C27_Witness ==
    \E p \in Procs : \E q \in SignedInWithGoogle("a@x.com") :
        /\ resp[q].msg = "Google user updated"
        /\ req[p].op = "login" /\ req[p].email = "a@x.com" /\ pc[p] = "done"
        /\ req[p].password # NULL
        /\ RowOf("a@x.com").password = BcryptHash(req[p].password)
        /\ resp[p] = Reply(403, "Use Google Sign-In instead")

\* C28: every step that changes the table is the step of a /signup or
\* /reset-password that answers 200 in that step, the step of a
\* /google-signin whose callback is yet to run, after which the only answer
\* is 200, or the step of a /forgot-password that goes on to call sendMail,
\* after which the only answers are 200 and 500 "Email failed"; so a
\* request answered with any other error has written nothing, a step whose
\* callback is handed an error writes nothing, and no step of a /login
\* changes the table.
C28_ErrorsWriteNothing ==
    [][/\ rows' # rows
          => \E p \in Procs :
                /\ pc'[p] # pc[p]
                /\ \/ /\ req[p].op \in {"signup", "reset"}
                      /\ pc'[p] = "done" /\ resp'[p].status = 200
                   \/ /\ req[p].op = "google"
                      /\ pc'[p] \in {"google_inserted", "google_updated"}
                   \/ req[p].op = "forgot" /\ pc'[p] = "forgot_mail"
       /\ \A p \in Procs :
            /\ (pc[p] \in {"google_inserted", "google_updated"} /\ pc'[p] # pc[p])
               => resp'[p].status = 200
            /\ (pc[p] = "forgot_mail" /\ pc'[p] # "forgot_mail")
               => resp'[p] \in {Reply(200, "Reset link sent"), Reply(500, "Email failed")}
            /\ (err'[p] # NULL /\ err[p] = NULL) => rows' = rows
            /\ ((req[p].op = "login" \/ req'[p].op = "login") /\ pc'[p] # pc[p])
               => rows' = rows]_vars

\* a signup that lost the INSERT was answered 500 and the row holds the
\* winner's digest, not its own
C28_Witness ==
    \E p \in Procs :
        /\ req[p].op = "signup" /\ pc[p] = "done" /\ resp[p] = Reply(500, "Signup failed")
        /\ err[p] = DupEntry /\ hashed[p] # NULL /\ RowOf(req[p].email).password # hashed[p]
        /\ ~RowOf(req[p].email).is_google

\* C29: in every step every row of the table is still there afterwards
\* with the id and the email it had, and no two rows share an id; so the
\* set of emails with a row only grows.
C29_RowsKeepIdAndEmail ==
    [][/\ \A r \in rows : \E x \in rows' : x.id = r.id /\ x.email = r.email
       /\ {r.email : r \in rows} \subseteq {x.email : x \in rows'}
       /\ \A x \in rows' : \A y \in rows' : x.id = y.id => x = y]_vars

\* the row signup created under id 1 has since been updated by a google
\* sign-in, a /forgot-password and a /reset-password
C29_Witness ==
    \E p \in Procs : \E q \in Procs :
        /\ req[p].op = "reset" /\ pc[p] = "done" /\ resp[p].status = 200
        /\ req[q].op = "google" /\ pc[q] = "done" /\ resp[q].msg = "Google user updated"
        /\ RowOf("a@x.com").id = 1 /\ nextId = 2
        /\ RowOf("a@x.com").name = "Bo"
        /\ RowOf("a@x.com").password = hashed[p]
        /\ hashed[p] = BcryptHash("newpass1")

\* The passwords a request can carry
Passwords == {"secret1", "newpass1", "abc"}

\* C30: in every reachable state every digest stored on a row is the
\* digest of a password of at least 6 characters, and a /reset-password
\* whose newPassword is shorter is refused with the table unchanged.
C30_StoredPasswordsLongEnough ==
    /\ \A r \in rows :
          r.password # NULL
          => \E w \in Passwords : Len(w) >= MinPasswordLen /\ r.password = BcryptHash(w)
    /\ \A p \in Procs :
          (/\ req[p].op = "reset" /\ req[p].password # NULL
           /\ Len(req[p].password) < MinPasswordLen /\ pc[p] = "done")
          => resp[p].status = 400

\* C31: the /login of the part_000 variant answers every login whose
\* SELECT returned a row flagged is_google with a response, of status 403
\* and without a token, also when that row has no password.
C31_Part000FederatedLoginRefused ==
    \A p \in Procs :
        (/\ req[p].op = "login" /\ user[p].is_google
         /\ pc[p] \notin {"idle", "login_select", "login_compare"})
        => /\ pc[p] = "done"
           /\ resp[p].status = 403
           /\ resp[p].token = NoToken

====
